---- MODULE Spec2Model ----
(***************************************************************************)
(* PipeCost: dbt / warehouse cost attribution and waste detection.         *)
(*                                                                         *)
(* pipecost.py         : parse_manifest, the three waste detectors and     *)
(*                       analyze (the report assembler).                   *)
(* snowflake_parser.py : parse_query_history, the pattern lookup, the      *)
(*                       word-boundary matcher, attribute_cost_to_model    *)
(*                       and calculate_monthly_breakdown.                  *)
(*                                                                         *)
(* Numbers.  Python floats are modelled by exact rationals in fixed point: *)
(*   - credits of a QueryRecord (pipecost.py) are whole credits;           *)
(*   - percentages rounded to one decimal are integers in tenths of a      *)
(*     percent, percentages rounded to two decimals are in hundredths;     *)
(*   - timestamps are seconds;                                             *)
(*   - credits of a normalized query (snowflake_parser.py) are in ticks,   *)
(*     TicksPerMicro ticks to 0.000001 credit, so that a split by 1, 2 or  *)
(*     3 is exact and round(x, 6) is a rounding to a whole multiple of     *)
(*     TicksPerMicro.                                                      *)
(* round() is round-half-to-even on the exact value.                       *)
(***************************************************************************)
EXTENDS Integers, Sequences, FiniteSets, TLC

VARIABLES
    pc,              \* position of the program being run
    nodes,           \* pipecost: the manifest's "nodes", in document order
    models,          \* pipecost: List[Model]
    query_records,   \* pipecost: List[QueryRecord]
    report,          \* pipecost: the dict analyze returns, or NoValue
    dbt_manifest,    \* parser: the manifest's "nodes", in document order
    queries,         \* parser: the normalized queries processed so far
    attributions,    \* parser: Dict[str, CostAttribution], in insertion order
    exec_times,      \* parser: Dict[str, List[int]]
    breakdown,       \* parser: what calculate_monthly_breakdown returns
    query_text,      \* parser: the text given to _match_query_to_models
    matched_models,  \* parser: what _match_query_to_models returns
    raw,             \* parser: the value json.load read from the query history
    results          \* parser: what parse_query_history has built so far

pipecostVars == <<nodes, models, query_records, report>>
parserVars == <<dbt_manifest, queries, attributions, exec_times, breakdown,
                query_text, matched_models, raw, results>>
vars == <<pc, pipecostVars, parserVars>>

NoValue == [none |-> TRUE]

\* the parser's variables before any of its functions has run
ParserIdle ==
    /\ dbt_manifest = <<>>
    /\ queries = <<>>
    /\ attributions = <<>>
    /\ exec_times = <<>>
    /\ breakdown = NoValue
    /\ query_text = <<>>
    /\ matched_models = NoValue
    /\ raw = NoValue
    /\ results = <<>>

\* pipecost's variables before any of its functions has run
PipecostIdle ==
    /\ nodes = <<>>
    /\ models = <<>>
    /\ query_records = <<>>
    /\ report = NoValue

(***************************************************************************)
(* Generic helpers: Python's sum, round, sorted.                           *)
(***************************************************************************)
RECURSIVE SumSeq(_)
SumSeq(s) ==
    IF s = <<>> THEN 0 ELSE Head(s) + SumSeq(Tail(s))

Range(s) == {s[i] : i \in DOMAIN s}

Min2(a, b) == IF a <= b THEN a ELSE b

\* round(n / d) to an integer, ties to the even neighbour; d > 0.
RoundHalfEven(n, d) ==
    LET q == n \div d
        r == n % d
    IN  IF 2 * r < d THEN q
        ELSE IF 2 * r > d THEN q + 1
        ELSE IF q % 2 = 0 THEN q ELSE q + 1

\* sorted(times): ascending, by insertion.
RECURSIVE SortAsc(_)
SortAsc(s) ==
    IF s = <<>> THEN <<>>
    ELSE LET rest == SortAsc(Tail(s))
             k == Cardinality({i \in DOMAIN rest : rest[i] < Head(s)})
         IN  SubSeq(rest, 1, k) \o <<Head(s)>> \o SubSeq(rest, k + 1, Len(rest))

\* a slip: descending, but equal keys come out in reverse input order
RECURSIVE SortBySavings_TiesReversed(_)
SortBySavings_TiesReversed(s) ==
    IF s = <<>> THEN <<>>
    ELSE LET rest == SortBySavings_TiesReversed(Tail(s))
             h == Head(s)
             k == Cardinality({i \in DOMAIN rest :
                      rest[i].estimated_savings_pct >= h.estimated_savings_pct})
         IN  SubSeq(rest, 1, k) \o <<h>> \o SubSeq(rest, k + 1, Len(rest))

\* sorted(findings, key=lambda f: -f.estimated_savings_pct): descending and
\* stable (equal keys keep their input order).
RECURSIVE SortBySavings(_)
SortBySavings(s) ==
    IF s = <<>> THEN <<>>
    ELSE LET rest == SortBySavings(Tail(s))
             h == Head(s)
             k == Cardinality({i \in DOMAIN rest :
                      rest[i].estimated_savings_pct > h.estimated_savings_pct})
         IN  SubSeq(rest, 1, k) \o <<h>> \o SubSeq(rest, k + 1, Len(rest))

\* The distinct values of s, in order of first occurrence (dict key order).
RECURSIVE FirstSeen(_)
FirstSeen(s) ==
    IF s = <<>> THEN <<>>
    ELSE LET front == FirstSeen(SubSeq(s, 1, Len(s) - 1))
             last == s[Len(s)]
         IN  IF last \in Range(front) THEN front ELSE Append(front, last)

\* [f(x) for x in s]
MapNames(s) == [i \in DOMAIN s |-> s[i].name]

(***************************************************************************)
(* pipecost.py: data classes.                                              *)
(***************************************************************************)
Model(name, materialization, sql_hash, upstream, downstream) ==
    [name |-> name, materialization |-> materialization, sql_hash |-> sql_hash,
     upstream |-> upstream, downstream |-> downstream]

QueryRecord(model_name, credits_used, start_time) ==
    [model_name |-> model_name, credits_used |-> credits_used,
     start_time |-> start_time]

\* detail and recommendation are formatted from the same numbers and carry
\* nothing else; the subject of a redundant finding is kept as the list of
\* names that ", ".join(names) prints.
Finding(category, severity, model, estimated_savings_pct) ==
    [category |-> category, severity |-> severity, model |-> model,
     estimated_savings_pct |-> estimated_savings_pct]

(***************************************************************************)
(* pipecost.py: _cost_map.                                                 *)
(***************************************************************************)
CreditsOf(qs, name) ==
    SumSeq([i \in DOMAIN qs |->
              IF qs[i].model_name = name THEN qs[i].credits_used ELSE 0])

\* cm, sum(cm.values()) or 1.0
cost_map(qs) ==
    LET keys == {qs[i].model_name : i \in DOMAIN qs}
        s == SumSeq([i \in DOMAIN qs |-> qs[i].credits_used])
    IN  [cm |-> [n \in keys |-> CreditsOf(qs, n)],
         total |-> IF s = 0 THEN 1 ELSE s]

\* cm.get(name, 0)
CmGet(cm, name) == IF name \in DOMAIN cm THEN cm[name] ELSE 0

(***************************************************************************)
(* pipecost.py: detect_zombies.                                            *)
(***************************************************************************)
ZombiePctThreshold == 1
ZombieCriticalPct == 5

\* a slip: the downstream test left out of the guard
ZombieSkipped_IgnoringDownstream(m, cm) == CmGet(cm, m.name) <= 0

\* the first guard of the loop: a unit that is skipped
ZombieSkipped(m, cm) == m.downstream # <<>> \/ CmGet(cm, m.name) <= 0

detect_zombies(ms, qs) ==
    LET c == cost_map(qs)
        \* pct = cm / total * 100; pct >= 1.0
        Emits(m) == /\ ~ZombieSkipped(m, c.cm)
                    /\ c.cm[m.name] * 100 >= ZombiePctThreshold * c.total
        kept == SelectSeq(ms, Emits)
        findings == [i \in DOMAIN kept |->
            Finding("zombie",
                    IF c.cm[kept[i].name] * 100 >= ZombieCriticalPct * c.total
                    THEN "critical" ELSE "warning",
                    kept[i].name,
                    RoundHalfEven(c.cm[kept[i].name] * 1000, c.total))]
    IN  SortBySavings(findings)

(***************************************************************************)
(* pipecost.py: detect_over_scheduling.                                    *)
(***************************************************************************)
MinRuns == 3
MaxAvgGapHours == 4
CriticalGapHours == 1
SecondsPerHour == 3600
OverScheduleSavingsPct == 75

\* groups[name]: the start times of the name's queries, in input order
TimesOf(qs, name) ==
    LET own == SelectSeq(qs, LAMBDA q : q.model_name = name)
    IN  [i \in DOMAIN own |-> own[i].start_time]

\* (ts[i + 1] - ts[i]).total_seconds(), for the sorted times
Intervals(times) ==
    LET ts == SortAsc(times)
    IN  [i \in 1 .. (Len(ts) - 1) |-> ts[i + 1] - ts[i]]

\* a slip: avg_h < hours
AvgGapAtMost_Strict(intervals, hours) ==
    SumSeq(intervals) < hours * SecondsPerHour * Len(intervals)

\* avg_h <= hours, where avg_h = sum(seconds / 3600) / len(intervals)
AvgGapAtMost(intervals, hours) ==
    SumSeq(intervals) <= hours * SecondsPerHour * Len(intervals)

\* a slip: only the names of the units given are looked at
detect_over_scheduling_UnitsOnly(ms, qs) ==
    LET names == SelectSeq(FirstSeen([i \in DOMAIN qs |-> qs[i].model_name]),
                           LAMBDA name : name \in Range(MapNames(ms)))
        c == cost_map(qs)
        Emits(name) ==
            /\ ~(Len(TimesOf(qs, name)) < MinRuns)
            /\ AvgGapAtMost(Intervals(TimesOf(qs, name)), MaxAvgGapHours)
        kept == SelectSeq(names, Emits)
        findings == [i \in DOMAIN kept |->
            Finding("over_schedule",
                    IF AvgGapAtMost(Intervals(TimesOf(qs, kept[i])),
                                    CriticalGapHours)
                    THEN "critical" ELSE "warning",
                    kept[i],
                    RoundHalfEven(CmGet(c.cm, kept[i]) * OverScheduleSavingsPct * 10,
                                  c.total))]
    IN  SortBySavings(findings)

detect_over_scheduling(ms, qs) ==
    LET names == FirstSeen([i \in DOMAIN qs |-> qs[i].model_name])
        c == cost_map(qs)
        Emits(name) ==
            /\ ~(Len(TimesOf(qs, name)) < MinRuns)
            /\ AvgGapAtMost(Intervals(TimesOf(qs, name)), MaxAvgGapHours)
        kept == SelectSeq(names, Emits)
        findings == [i \in DOMAIN kept |->
            Finding("over_schedule",
                    IF AvgGapAtMost(Intervals(TimesOf(qs, kept[i])),
                                    CriticalGapHours)
                    THEN "critical" ELSE "warning",
                    kept[i],
                    \* sav = cm.get(name, 0) * 0.75 / total * 100, round(sav, 1)
                    RoundHalfEven(CmGet(c.cm, kept[i]) * OverScheduleSavingsPct * 10,
                                  c.total))]
    IN  SortBySavings(findings)

(***************************************************************************)
(* pipecost.py: detect_redundant.                                          *)
(***************************************************************************)
RedundantCriticalPct == 5

\* a slip: every unit enters a group, also one without a fingerprint
HasFingerprint_Always(m) == TRUE

\* the guard of the grouping loop: a unit that enters a group
HasFingerprint(m) == m.sql_hash # ""

\* groups[h]: the names of the units with fingerprint h, in input order
GroupOf(ms, h) ==
    MapNames(SelectSeq(ms, LAMBDA m : HasFingerprint(m) /\ m.sql_hash = h))

detect_redundant(ms, qs) ==
    LET hashed == SelectSeq(ms, HasFingerprint)
        hashes == FirstSeen([i \in DOMAIN hashed |-> hashed[i].sql_hash])
        c == cost_map(qs)
        Emits(h) == ~(Len(GroupOf(ms, h)) < 2)
        kept == SelectSeq(hashes, Emits)
        Cost(names) == SumSeq([i \in DOMAIN names |-> CmGet(c.cm, names[i])])
        findings == [i \in DOMAIN kept |->
            LET names == GroupOf(ms, kept[i])
                n == Len(names)
            IN  \* sav = cost * (n - 1) / n / total * 100
                Finding("redundant",
                        IF Cost(names) * (n - 1) * 100 > RedundantCriticalPct * n * c.total
                        THEN "critical" ELSE "warning",
                        names,
                        RoundHalfEven(Cost(names) * (n - 1) * 1000, n * c.total))]
    IN  SortBySavings(findings)

(***************************************************************************)
(* pipecost.py: analyze.                                                   *)
(***************************************************************************)
SavingsCapTenths == 750

\* a slip: the sum is reported as it is
CapSavings_Uncapped(total) == total

\* min(sum(...), 75.0)
CapSavings(total) == Min2(total, SavingsCapTenths)

analyze(ms, qs) ==
    LET z == detect_zombies(ms, qs)
        o == detect_over_scheduling(ms, qs)
        r == detect_redundant(ms, qs)
        all_f == z \o o \o r
        total_sav == CapSavings(SumSeq([i \in DOMAIN all_f |->
                                           all_f[i].estimated_savings_pct]))
    IN  [total_credits |-> SumSeq([i \in DOMAIN qs |-> qs[i].credits_used]),
         findings |-> all_f,
         savings_pct |-> total_sav,
         summary |-> [zombies |-> Len(z), over_scheduled |-> Len(o),
                      redundant |-> Len(r)]]

(***************************************************************************)
(* pipecost.py: parse_manifest.                                            *)
(*                                                                         *)
(* A manifest node is a record; a key that may be missing holds <<>> when  *)
(* it is missing and <<value>> when it is present.  A qualified dependency *)
(* id is the sequence of its "."-separated segments.                       *)
(***************************************************************************)
\* dict.get(key, default)
Get(opt, default) == IF opt = <<>> THEN default ELSE opt[1]

\* hashlib.md5(raw.encode()).hexdigest(): one digest per text, 32 hex digits
\* for every text, the empty one included
Md5(text) == "md5(" \o text \o ")"

\* d.split(".")[-1]
LastSegment(d) == d[Len(d)]

\* node.get("raw_sql", node.get("raw_code", ""))
RawOf(node) == Get(node.raw_sql, Get(node.raw_code, ""))

\* Model(name=..., materialization=..., sql_hash=..., upstream=[...])
UnitOfNode(node) ==
    Model(node.name,
          Get(node.materialized, "view"),
          Md5(RawOf(node)),
          [k \in DOMAIN node.depends_on |-> LastSegment(node.depends_on[k])],
          <<>>)

\* name_map = {m.name: m for m in models}: the last unit of a name holds it
NameMapIndex(ms, name) ==
    CHOOSE i \in DOMAIN ms :
        ms[i].name = name /\ \A j \in DOMAIN ms : ms[j].name = name => j <= i

\* every (up, m.name) the nested loops visit, in the order they visit them
RECURSIVE UpstreamEdges(_)
UpstreamEdges(ms) ==
    IF ms = <<>> THEN <<>>
    ELSE LET m == ms[Len(ms)]
         IN  UpstreamEdges(SubSeq(ms, 1, Len(ms) - 1))
               \o [k \in DOMAIN m.upstream |-> [up |-> m.upstream[k], down |-> m.name]]

\* a slip: the edge is recorded on the unit that declares the dependency
DownstreamOf_OnDeclaringUnit(ms, i) ==
    LET hits == SelectSeq(UpstreamEdges(ms),
                          LAMBDA e : /\ e.up \in Range(MapNames(ms))
                                     /\ NameMapIndex(ms, e.down) = i)
    IN  [k \in DOMAIN hits |-> hits[k].up]

\* what the second pass appends to unit i's downstream:
\*   if up in name_map: name_map[up].downstream.append(m.name)
DownstreamOf(ms, i) ==
    LET hits == SelectSeq(UpstreamEdges(ms),
                          LAMBDA e : /\ e.up \in Range(MapNames(ms))
                                     /\ NameMapIndex(ms, e.up) = i)
    IN  [k \in DOMAIN hits |-> hits[k].down]

\* the second pass over all units
LinkDownstream(ms) ==
    [i \in DOMAIN ms |->
        [ms[i] EXCEPT !.downstream = ms[i].downstream \o DownstreamOf(ms, i)]]

MaxNodes == 3

\* the names of the model nodes, taken in this order (a unit's name is its key)
NodeNameSeq == <<"stg_orders", "fact_orders", "dup_report">>

\* materialization and defining text of a node
NodeBodies ==
    {[materialized |-> <<>>, raw_sql |-> <<>>, raw_code |-> <<>>],
     [materialized |-> <<"table">>, raw_sql |-> <<"select 1">>, raw_code |-> <<>>],
     [materialized |-> <<>>, raw_sql |-> <<>>, raw_code |-> <<"select 1">>],
     [materialized |-> <<"incremental">>, raw_sql |-> <<"">>, raw_code |-> <<"select 2">>]}

DepStg == <<"model", "jaffle", "stg_orders">>
DepFact == <<"model", "jaffle", "fact_orders">>
\* a source, which is no unit
DepSource == <<"source", "jaffle", "raw", "orders">>
\* a seed that has the name of a unit
DepSeed == <<"seed", "jaffle", "stg_orders">>

DependsOnLists ==
    {<<>>, <<DepStg>>, <<DepFact>>, <<DepSource>>, <<DepSeed>>,
     <<DepStg, DepFact>>, <<DepFact, DepFact>>}

\* the nodes that can come next in the manifest: a test, or the next model
NextNodes(ms) ==
    {[resource_type |-> "test", name |-> "not_null_stg_orders",
      materialized |-> <<>>, raw_sql |-> <<"select 1">>, raw_code |-> <<>>,
      depends_on |-> <<DepStg>>]}
    \cup
    (IF Len(ms) >= Len(NodeNameSeq) THEN {}
     ELSE {[resource_type |-> "model", name |-> NodeNameSeq[Len(ms) + 1],
            materialized |-> b.materialized, raw_sql |-> b.raw_sql,
            raw_code |-> b.raw_code, depends_on |-> d] :
              b \in NodeBodies, d \in DependsOnLists})

InitGraph ==
    /\ pc = "first_pass"
    /\ PipecostIdle
    /\ ParserIdle

\* one iteration of the first loop of parse_manifest
ReadNode ==
    /\ pc = "first_pass"
    /\ Len(nodes) < MaxNodes
    /\ \E node \in NextNodes(models) :
          /\ nodes' = Append(nodes, node)
          /\ models' = IF node.resource_type # "model" THEN models
                       ELSE Append(models, UnitOfNode(node))
    /\ UNCHANGED <<pc, query_records, report, parserVars>>

\* the second pass of parse_manifest, and its return
SecondPass ==
    /\ pc = "first_pass"
    /\ models' = LinkDownstream(models)
    /\ pc' = "parsed"
    /\ UNCHANGED <<nodes, query_records, report, parserVars>>

(***************************************************************************)
(* The detectors run on units and usage events a caller built: Model(...)  *)
(* and QueryRecord(...) as the callers and tests construct them, then      *)
(* analyze(models, query_records).                                         *)
(***************************************************************************)
MaxModels == 2
MaxQueryRecords == 4
MaxModelsRedundant == 4
MaxQueryRecordsRedundant == 1

\* unit names, taken in this order (a unit's name is its key)
UnitNameSeq == <<"stg_orders", "zombie_report", "dup_report", "fact_orders", "dim_users">>
EventNames == {"stg_orders", "zombie_report", "adhoc"}
DownstreamLists == {<<>>, <<"fact_orders">>}
Fingerprints == {"", "h1", "h2"}
\* credits_used (credits) and start_time (seconds: 0h, 2h, 8h, 8h + 1s)
EventKinds == {[credits_used |-> 0, start_time |-> 0],
               [credits_used |-> 1, start_time |-> 0],
               [credits_used |-> 19, start_time |-> 7200],
               [credits_used |-> 80, start_time |-> 28800],
               [credits_used |-> 1, start_time |-> 28801]}

InitDetect ==
    /\ pc = "build"
    /\ PipecostIdle
    /\ ParserIdle

\* models.append(Model(name, sql_hash=..., downstream=[...]))
AddModel(limit, fingerprints, downstreams) ==
    /\ pc = "build"
    /\ query_records = <<>>
    /\ Len(models) < Min2(limit, Len(UnitNameSeq))
    /\ \E downstream \in downstreams, sql_hash \in fingerprints :
          models' = Append(models, Model(UnitNameSeq[Len(models) + 1], "view",
                                         sql_hash, <<>>, downstream))
    /\ UNCHANGED <<pc, nodes, query_records, report, parserVars>>

\* queries.append(QueryRecord(model_name=..., credits_used=..., start_time=...))
AddQueryRecord(limit) ==
    /\ pc = "build"
    /\ Len(query_records) < limit
    /\ \E name \in EventNames, k \in EventKinds :
          query_records' = Append(query_records,
                                  QueryRecord(name, k.credits_used, k.start_time))
    /\ UNCHANGED <<pc, nodes, models, report, parserVars>>

\* result = analyze(models, query_records)
Analyze ==
    /\ pc \in {"build", "parsed"}
    /\ report' = analyze(models, query_records)
    /\ pc' = "analyzed"
    /\ UNCHANGED <<nodes, models, query_records, parserVars>>

\* few units, all with a fingerprint, many events: the cost-driven detectors
AddModelDetect == AddModel(MaxModels, {"h1"}, DownstreamLists)
AddQueryRecordDetect == AddQueryRecord(MaxQueryRecords)
NextDetect == AddModelDetect \/ AddQueryRecordDetect \/ Analyze
SpecDetect == InitDetect /\ [][NextDetect]_vars

\* many units, every fingerprint, few events: the redundancy detector
AddModelRedundant == AddModel(MaxModelsRedundant, Fingerprints, {<<>>})
AddQueryRecordRedundant == AddQueryRecord(MaxQueryRecordsRedundant)
NextRedundant == AddModelRedundant \/ AddQueryRecordRedundant \/ Analyze
SpecRedundant == InitDetect /\ [][NextRedundant]_vars

\* parse_manifest, then analyze on the units it returns
NextGraph == ReadNode \/ SecondPass \/ Analyze
SpecGraph == InitGraph /\ [][NextGraph]_vars

(***************************************************************************)
(* snowflake_parser.py: strings.                                           *)
(*                                                                         *)
(* A str that is matched or compared is the sequence of its characters.    *)
(***************************************************************************)
LowerLetters ==
    <<"a", "b", "c", "d", "e", "f", "g", "h", "i", "j", "k", "l", "m",
      "n", "o", "p", "q", "r", "s", "t", "u", "v", "w", "x", "y", "z">>
UpperLetters ==
    <<"A", "B", "C", "D", "E", "F", "G", "H", "I", "J", "K", "L", "M",
      "N", "O", "P", "Q", "R", "S", "T", "U", "V", "W", "X", "Y", "Z">>
DigitChars == <<"0", "1", "2", "3", "4", "5", "6", "7", "8", "9">>

\* the characters in code point order, which is the order of str comparison
CodePointOrder ==
    <<" ", ".">> \o DigitChars \o UpperLetters \o <<"_">> \o LowerLetters

CodePoint(c) == CHOOSE i \in DOMAIN CodePointOrder : CodePointOrder[i] = c

\* str.lower(), one character
LowerChar(c) ==
    IF c \in Range(UpperLetters)
    THEN LowerLetters[CHOOSE i \in DOMAIN UpperLetters : UpperLetters[i] = c]
    ELSE c

\* str.lower()
Lower(str) == [i \in DOMAIN str |-> LowerChar(str[i])]

\* a < b for two str
RECURSIVE StrLess(_, _)
StrLess(a, b) ==
    IF b = <<>> THEN FALSE
    ELSE IF a = <<>> THEN TRUE
    ELSE IF Head(a) # Head(b) THEN CodePoint(Head(a)) < CodePoint(Head(b))
    ELSE StrLess(Tail(a), Tail(b))

\* sorted(set of str)
RECURSIVE SortedStrs(_)
SortedStrs(S) ==
    IF S = {} THEN <<>>
    ELSE LET least == CHOOSE x \in S : \A y \in S \ {x} : StrLess(x, y)
         IN  <<least>> \o SortedStrs(S \ {least})

\* the regular expression class \w
IsWordChar(c) ==
    c \in Range(LowerLetters) \cup Range(UpperLetters) \cup Range(DigitChars) \cup {"_"}

\* the regular expression assertion \b, at the position before text[k]
WordBoundary(text, k) ==
    LET before == k > 1 /\ IsWordChar(text[k - 1])
        after == k <= Len(text) /\ IsWordChar(text[k])
    IN  before # after

\* a slip: the pattern is searched as a plain substring
Search_Substring(pattern, text) ==
    \E i \in 1 .. (Len(text) - Len(pattern) + 1) :
        SubSeq(text, i, i + Len(pattern) - 1) = pattern

\* re.search(r"\b" + re.escape(pattern) + r"\b", text) finds a match
Search(pattern, text) ==
    \E i \in 1 .. (Len(text) - Len(pattern) + 1) :
        /\ SubSeq(text, i, i + Len(pattern) - 1) = pattern
        /\ WordBoundary(text, i)
        /\ WordBoundary(text, i + Len(pattern))

(***************************************************************************)
(* snowflake_parser.py: _extract_model_names_from_manifest.                *)
(*                                                                         *)
(* A node of the manifest: resource_type, name, alias (<<>> when the key   *)
(* is missing, else <<str>>) and schema (likewise).                        *)
(***************************************************************************)
\* the keys one model node writes into model_map
PatternsOfNode(node) ==
    LET name == Lower(node.name)
        alias == Get(node.alias, <<>>)
        schema == Get(node.schema, <<>>)
        \* if alias and alias.lower() != name.lower()
        aliased == alias # <<>> /\ Lower(alias) # name
    IN  {name}
        \cup (IF aliased THEN {Lower(alias)} ELSE {})
        \cup (IF schema # <<>> THEN {Lower(schema) \o <<".">> \o name} ELSE {})
        \cup (IF schema # <<>> /\ aliased
              THEN {Lower(schema) \o <<".">> \o Lower(alias)} ELSE {})

\* model_map: the last node that writes a key holds it
RECURSIVE extract_model_names_from_manifest(_)
extract_model_names_from_manifest(manifest) ==
    IF manifest = <<>> THEN <<>>
    ELSE LET prev == extract_model_names_from_manifest(
                         SubSeq(manifest, 1, Len(manifest) - 1))
             node == manifest[Len(manifest)]
         IN  IF node.resource_type # "model" THEN prev
             ELSE [p \in DOMAIN prev \cup PatternsOfNode(node) |->
                     IF p \in PatternsOfNode(node) THEN node.name ELSE prev[p]]

(***************************************************************************)
(* snowflake_parser.py: _match_query_to_models.                            *)
(***************************************************************************)
\* a slip: the names are collected in a list, one entry per matching pattern
match_query_to_models_PerPattern(text, model_map) ==
    LET hits == SortedStrs({x \in DOMAIN model_map : Search(x, Lower(text))})
    IN  [i \in DOMAIN hits |-> model_map[hits[i]]]

\* The longest-first order of the loop decides nothing: every pattern is
\* tried and the names are collected in a set.
match_query_to_models(text, model_map) ==
    LET query_lower == Lower(text)
        matched == {model_map[p] : p \in {x \in DOMAIN model_map : Search(x, query_lower)}}
    IN  SortedStrs(matched)

(***************************************************************************)
(* snowflake_parser.py: attribute_cost_to_model.                           *)
(***************************************************************************)
\* ticks in 0.000001 credit: a split by 1, 2, 3 or 4 is exact
TicksPerMicro == 12

Unattributed ==
    <<"_", "_", "u", "n", "a", "t", "t", "r", "i", "b", "u", "t", "e", "d", "_", "_">>

CostAttribution(model_name) ==
    [model_name |-> model_name, total_credits |-> 0, query_count |-> 0,
     total_bytes_scanned |-> 0, avg_execution_time |-> [num |-> 0, den |-> 1],
     warehouses |-> <<>>, queries |-> <<>>]

\* round(x, 6), x and the result in ticks
Round6(x) == RoundHalfEven(x, TicksPerMicro) * TicksPerMicro

\* the keys of attributions, in insertion order
Keys(attrs) == [i \in DOMAIN attrs |-> attrs[i].model_name]

IndexOf(attrs, name) == CHOOSE i \in DOMAIN attrs : attrs[i].model_name = name

\* a slip: the whole credits are added to every matched unit
CreditShare_Whole(credits, n) == credits

\* credits * share, where share = 1.0 / len(matched_models)
CreditShare(credits, n) == credits \div n

\* the body of the inner loop, for one matched name
AddShare(attrs, model_name, q, n) ==
    LET have == IF model_name \in Range(Keys(attrs)) THEN attrs
                ELSE Append(attrs, CostAttribution(model_name))
        i == IndexOf(have, model_name)
        attr == have[i]
    IN  [have EXCEPT ![i] =
            [attr EXCEPT
               !.total_credits = attr.total_credits + CreditShare(q.credits_used, n),
               !.query_count = attr.query_count + 1,
               \* int(bytes_scanned * share)
               !.total_bytes_scanned = attr.total_bytes_scanned + (q.bytes_scanned \div n),
               !.queries = Append(attr.queries,
                                  [query_id |-> q.query_id,
                                   credits_share |-> Round6(CreditShare(q.credits_used, n)),
                                   start_time |-> q.start_time]),
               !.warehouses = IF q.warehouse_name # "" 
                              THEN Append(attr.warehouses, q.warehouse_name)
                              ELSE attr.warehouses]]

RECURSIVE AddShares(_, _, _, _)
AddShares(attrs, names, q, n) ==
    IF names = <<>> THEN attrs
    ELSE AddShares(AddShare(attrs, Head(names), q, n), Tail(names), q, n)

\* matched_models, with the fallback to the unattributed bucket
MatchedOrUnattributed(q, manifest) ==
    LET matched == match_query_to_models(q.query_text,
                                         extract_model_names_from_manifest(manifest))
    IN  IF matched = <<>> THEN <<Unattributed>> ELSE matched

\* one iteration of the loop over queries: the new attributions
AttributeOne(attrs, q, manifest) ==
    LET names == MatchedOrUnattributed(q, manifest)
    IN  AddShares(attrs, names, q, Len(names))

\* exec_times[model_name].append(exec_time), for every matched name
RecordExecTimes(times, q, manifest) ==
    LET names == MatchedOrUnattributed(q, manifest)
    IN  [k \in DOMAIN times \cup Range(names) |->
            IF k \in Range(names)
            THEN Append(IF k \in DOMAIN times THEN times[k] ELSE <<>>, q.execution_time)
            ELSE times[k]]

\* the last loop: avg_execution_time = sum(times) / len(times)
WithAverages(attrs, times) ==
    [i \in DOMAIN attrs |->
        IF attrs[i].model_name \in DOMAIN times /\ times[attrs[i].model_name] # <<>>
        THEN [attrs[i] EXCEPT !.avg_execution_time =
                 [num |-> SumSeq(times[attrs[i].model_name]),
                  den |-> Len(times[attrs[i].model_name])]]
        ELSE attrs[i]]

(***************************************************************************)
(* snowflake_parser.py: calculate_monthly_breakdown.                       *)
(*                                                                         *)
(* A start_time is a Python value: [py |-> "str", s |-> ...],              *)
(* [py |-> "int", v |-> ...] or [py |-> "None"].                           *)
(***************************************************************************)
PyStr(s) == [py |-> "str", s |-> s]
PyInt(v) == [py |-> "int", v |-> v]
PyNone == [py |-> "None"]

\* bool(value)
Truthy(value) ==
    CASE value.py = "str" -> value.s # ""
      [] value.py = "int" -> value.v # 0
      [] OTHER -> FALSE

\* start.replace("Z", "+00:00"), on the timestamps of the model
ReplaceZ(s) ==
    CASE s = "2024-01-15T10:00:00Z" -> "2024-01-15T10:00:00+00:00"
      [] OTHER -> s

\* datetime.fromisoformat(s).strftime("%Y-%m"), on the timestamps of the
\* model; "ValueError" when fromisoformat raises it
IsoYearMonth(s) ==
    CASE s = "2024-01-15T10:00:00+00:00" -> "2024-01"
      [] s = "2024-02-01T08:30:00" -> "2024-02"
      [] OTHER -> "ValueError"

\* month_key of one per-event record; "AttributeError" when
\* start.replace is called on a value that is no str
MonthKey(start) ==
    IF ~Truthy(start) THEN "unknown"
    ELSE IF start.py # "str" THEN "AttributeError"
    ELSE IF IsoYearMonth(ReplaceZ(start.s)) = "ValueError" THEN "unknown"
    ELSE IsoYearMonth(ReplaceZ(start.s))

\* the per-event records of all attributions
AllShares(attrs) ==
    UNION {{[model |-> attrs[i].model_name, at |-> k, q |-> attrs[i].queries[k]] :
              k \in DOMAIN attrs[i].queries} : i \in DOMAIN attrs}

\* monthly[month_key][model_name], for a name that has a record in the month
CreditsInMonth(attr, month_key) ==
    SumSeq([k \in DOMAIN attr.queries |->
              IF MonthKey(attr.queries[k].start_time) = month_key
              THEN attr.queries[k].credits_share ELSE 0])

\* monthly[month_key].items(): the names with a record in the month, in the
\* insertion order of attributions
ModelsInMonth(attrs, month_key) ==
    LET present == SelectSeq(attrs, LAMBDA a :
                       \E k \in DOMAIN a.queries :
                          MonthKey(a.queries[k].start_time) = month_key)
    IN  [i \in DOMAIN present |->
            [model |-> present[i].model_name,
             cred |-> CreditsInMonth(present[i], month_key)]]

\* sorted(items, key=lambda x: -x[1]): descending and stable
RECURSIVE SortByCredits(_)
SortByCredits(s) ==
    IF s = <<>> THEN <<>>
    ELSE LET rest == SortByCredits(Tail(s))
             h == Head(s)
             k == Cardinality({i \in DOMAIN rest : rest[i].cred > h.cred})
         IN  SubSeq(rest, 1, k) \o <<h>> \o SubSeq(rest, k + 1, Len(rest))

\* s[:n], n >= 0
Take(s, n) == SubSeq(s, 1, Min2(n, Len(s)))

\* round(x, 4), x and the result in ticks
Round4(x) == RoundHalfEven(x, 100 * TicksPerMicro) * 100 * TicksPerMicro

\* a slip: the percentage is taken of the ranked entries' total
PctOf_Truncating(cred, month_total) ==
    IF month_total > 0 THEN (cred * 10000) \div month_total ELSE 0

\* round((cred / month_total * 100) if month_total > 0 else 0, 2), in
\* hundredths of a percent
PctOf(cred, month_total) ==
    IF month_total > 0 THEN RoundHalfEven(cred * 10000, month_total) ELSE 0

\* a slip: the ranking is not cut
Ranked_Uncut(items, top_n) == SortByCredits(items)

\* sorted(models_in_month.items(), key=lambda x: -x[1])[:top_n]
Ranked(items, top_n) == Take(SortByCredits(items), top_n)

calculate_monthly_breakdown(attrs, top_n) ==
    LET keys == {MonthKey(r.q.start_time) : r \in AllShares(attrs)}
        MonthOf(month_key) ==
            LET items == ModelsInMonth(attrs, month_key)
                month_total == SumSeq([i \in DOMAIN items |-> items[i].cred])
                ranked == Ranked(items, top_n)
            IN  [total_credits |-> Round4(month_total),
                 top_models |-> [i \in DOMAIN ranked |->
                    [model |-> ranked[i].model,
                     credits |-> Round4(ranked[i].cred),
                     pct |-> PctOf(ranked[i].cred, month_total)]]]
    IN  IF "AttributeError" \in keys THEN [raised |-> "AttributeError"]
        ELSE [raised |-> "",
              total_credits |-> Round4(SumSeq([i \in DOMAIN attrs |-> attrs[i].total_credits])),
              months |-> [m \in keys |-> MonthOf(m)]]

(***************************************************************************)
(* The parser runs on a manifest and on normalized queries.                *)
(***************************************************************************)
MaxQueries == 3
MaxQueriesMonthly == 2
MaxMatchNodes == 2
MaxTextLen == 3
DefaultTopN == 10

Stg == <<"s", "t", "g">>
Fct == <<"f", "c", "t">>
Dim == <<"d", "i", "m">>
RawSchema == <<"r", "a", "w">>
Space == <<" ">>

\* the manifest of the attribution runs, node by node
AttrNodeSeq ==
    <<[resource_type |-> "model", name |-> Stg, alias |-> <<>>, schema |-> <<RawSchema>>],
      [resource_type |-> "model", name |-> Fct, alias |-> <<>>, schema |-> <<>>],
      [resource_type |-> "model", name |-> Dim, alias |-> <<>>, schema |-> <<>>]>>

NormalizedQuery(text, credits, bytes, start) ==
    [query_id |-> "q", query_text |-> text, warehouse_name |-> "WH_XS",
     bytes_scanned |-> bytes, credits_used |-> credits, execution_time |-> 120,
     start_time |-> start]

\* texts that reference one, two, three and no unit, and one unit through
\* its bare and its schema-qualified pattern at once
AttrTexts ==
    {Stg, Stg \o Space \o Fct, Stg \o Space \o Fct \o Space \o Dim,
     Stg \o <<"2">>, RawSchema \o <<".">> \o Stg}

\* 0, 0.000001 and 0.000003 credits
AttrQueries ==
    {NormalizedQuery(t, c * TicksPerMicro, 7, PyStr("2024-01-15T10:00:00Z")) :
        t \in AttrTexts, c \in {0, 1, 3}}

MonthlyTexts ==
    {Stg, Stg \o Space \o Fct, Stg \o Space \o Fct \o Space \o Dim, Stg \o <<"2">>}

MonthlyStartTimes ==
    {PyStr("2024-01-15T10:00:00Z"), PyStr("2024-02-01T08:30:00"), PyStr(""),
     PyStr("yesterday"), PyInt(20240115), PyNone}

\* 0.000001, 0.000002 and 0.000004 credits
MonthlyQueries ==
    {NormalizedQuery(t, c * TicksPerMicro, 1000, s) :
        t \in MonthlyTexts, c \in {1, 2, 4}, s \in MonthlyStartTimes}

TopNs == {0, 1, 2, DefaultTopN}

InitAttr ==
    /\ pc = "manifest"
    /\ PipecostIdle
    /\ ParserIdle

InitMonthly ==
    /\ pc = "manifest"
    /\ PipecostIdle
    /\ dbt_manifest = AttrNodeSeq
    /\ queries = <<>>
    /\ attributions = <<>>
    /\ exec_times = <<>>
    /\ breakdown = NoValue
    /\ query_text = <<>>
    /\ matched_models = NoValue
    /\ raw = NoValue
    /\ results = <<>>

\* the next node of the manifest is read
LoadNode ==
    /\ pc = "manifest"
    /\ Len(dbt_manifest) < Len(AttrNodeSeq)
    /\ dbt_manifest' = Append(dbt_manifest, AttrNodeSeq[Len(dbt_manifest) + 1])
    /\ UNCHANGED <<pc, pipecostVars, queries, attributions, exec_times, breakdown,
                   query_text, matched_models, raw, results>>

\* one iteration of the loop over queries of attribute_cost_to_model
AttributeQuery(pool, limit) ==
    /\ pc \in {"manifest", "attributing"}
    /\ Len(queries) < limit
    /\ \E q \in pool :
          /\ queries' = Append(queries, q)
          /\ attributions' = AttributeOne(attributions, q, dbt_manifest)
          /\ exec_times' = RecordExecTimes(exec_times, q, dbt_manifest)
    /\ pc' = "attributing"
    /\ UNCHANGED <<pipecostVars, dbt_manifest, breakdown, query_text,
                   matched_models, raw, results>>

\* the loop over exec_times, and the return of attribute_cost_to_model
FinishAttribution ==
    /\ pc \in {"manifest", "attributing"}
    /\ attributions' = WithAverages(attributions, exec_times)
    /\ pc' = "attributed"
    /\ UNCHANGED <<pipecostVars, dbt_manifest, queries, exec_times, breakdown,
                   query_text, matched_models, raw, results>>

\* calculate_monthly_breakdown(attributions, top_n)
Breakdown ==
    /\ pc = "attributed"
    /\ \E top_n \in TopNs :
          breakdown' = [top_n |-> top_n,
                        result |-> calculate_monthly_breakdown(attributions, top_n)]
    /\ pc' = "reported"
    /\ UNCHANGED <<pipecostVars, dbt_manifest, queries, attributions, exec_times,
                   query_text, matched_models, raw, results>>

AttributeQueryAttr == AttributeQuery(AttrQueries, MaxQueries)
NextAttr == LoadNode \/ AttributeQueryAttr \/ FinishAttribution
SpecAttr == InitAttr /\ [][NextAttr]_vars

AttributeQueryMonthly == AttributeQuery(MonthlyQueries, MaxQueriesMonthly)
NextMonthly == AttributeQueryMonthly \/ FinishAttribution \/ Breakdown
SpecMonthly == InitMonthly /\ [][NextMonthly]_vars

(***************************************************************************)
(* _match_query_to_models on manifests and texts over a small alphabet.    *)
(***************************************************************************)
MatchAlphabet == {"a", "b", "A", "_", ".", " "}

MatchTexts == UNION {[1 .. n -> MatchAlphabet] : n \in 0 .. MaxTextLen}

MatchNodes ==
    {[resource_type |-> "test", name |-> <<"a">>, alias |-> <<>>, schema |-> <<>>]}
    \cup
    {[resource_type |-> "model", name |-> n, alias |-> a, schema |-> s] :
        n \in {<<"a">>, <<"a", "b">>, <<"A">>},
        a \in {<<>>, <<<<"b">>>>},
        s \in {<<>>, <<<<"b">>>>}}

InitMatch ==
    /\ pc = "manifest"
    /\ PipecostIdle
    /\ ParserIdle

\* a node is added to the manifest
LoadMatchNode ==
    /\ pc = "manifest"
    /\ Len(dbt_manifest) < MaxMatchNodes
    /\ \E node \in MatchNodes : dbt_manifest' = Append(dbt_manifest, node)
    /\ UNCHANGED <<pc, pipecostVars, queries, attributions, exec_times, breakdown,
                   query_text, matched_models, raw, results>>

\* matched_models = _match_query_to_models(query_text, model_map)
Match ==
    /\ pc = "manifest"
    /\ \E text \in MatchTexts :
          /\ query_text' = text
          /\ matched_models' =
                match_query_to_models(text, extract_model_names_from_manifest(dbt_manifest))
    /\ pc' = "matched"
    /\ UNCHANGED <<pipecostVars, dbt_manifest, queries, attributions, exec_times,
                   breakdown, raw, results>>

NextMatch == LoadMatchNode \/ Match
SpecMatch == InitMatch /\ [][NextMatch]_vars

(***************************************************************************)
(* snowflake_parser.py: parse_query_history.                               *)
(*                                                                         *)
(* json.load returns Python values: None, an int, a float (here in tenths, *)
(* which the floats of the model are whole multiples of), a str (the       *)
(* sequence of its characters), a list or a dict.  A row is a dict: a      *)
(* function from the keys it has to their values.  Numbers are not         *)
(* negative and a str is made of digits, "." and letters.                  *)
(***************************************************************************)
PyFloat(tenths) == [py |-> "float", tenths |-> tenths]
JsonArray(items) == [py |-> "list", items |-> items]
JsonObject == [py |-> "dict"]

\* what a conversion does: it returns a value or raises an exception
Return(value) == [raised |-> "", value |-> value]
Raise(exception) == [raised |-> exception, value |-> NoValue]

DigitValue(c) == (CHOOSE i \in DOMAIN DigitChars : DigitChars[i] = c) - 1

IsDigits(s) == s # <<>> /\ \A k \in DOMAIN s : s[k] \in Range(DigitChars)

\* the number a sequence of digits writes, 0 for no digit
RECURSIVE DigitsValue(_)
DigitsValue(s) ==
    IF s = <<>> THEN 0
    ELSE DigitsValue(SubSeq(s, 1, Len(s) - 1)) * 10 + DigitValue(s[Len(s)])

\* the digits that write a number
RECURSIVE Digits(_)
Digits(n) ==
    IF n < 10 THEN <<DigitChars[n + 1]>>
    ELSE Digits(n \div 10) \o <<DigitChars[(n % 10) + 1]>>

\* str(v)
StrOf(v) ==
    CASE v.py = "None" -> <<"N", "o", "n", "e">>
      [] v.py = "int" -> Digits(v.v)
      [] v.py = "float" -> Digits(v.tenths \div 10) \o <<".">> \o Digits(v.tenths % 10)
      [] v.py = "str" -> v.s

\* int(v)
IntOf(v) ==
    CASE v.py = "None" -> Raise("TypeError")
      [] v.py = "int" -> Return(v.v)
      [] v.py = "float" -> Return(v.tenths \div 10)
      [] v.py = "str" -> IF IsDigits(v.s) THEN Return(DigitsValue(v.s))
                         ELSE Raise("ValueError")

\* float(v), in tenths; a str is a decimal literal with at most one digit
\* after the point
FloatOf(v) ==
    CASE v.py = "None" -> Raise("TypeError")
      [] v.py = "int" -> Return(v.v * 10)
      [] v.py = "float" -> Return(v.tenths)
      [] v.py = "str" ->
           LET dots == {k \in DOMAIN v.s : v.s[k] = "."}
               dot == IF dots = {} THEN Len(v.s) + 1 ELSE CHOOSE k \in dots : TRUE
               whole == SubSeq(v.s, 1, dot - 1)
               frac == SubSeq(v.s, dot + 1, Len(v.s))
           IN  IF /\ Cardinality(dots) <= 1
                  /\ whole \o frac # <<>>
                  /\ \A k \in DOMAIN (whole \o frac) : (whole \o frac)[k] \in Range(DigitChars)
                  /\ Len(frac) <= 1
               THEN Return(DigitsValue(whole) * 10 + DigitsValue(frac))
               ELSE Raise("ValueError")

\* the fields of a normalized record in the order the dict display
\* evaluates them: the lower-case key, the upper-case key, the conversion
FieldSeq ==
    <<[key |-> "query_id", upper |-> "QUERY_ID", conv |-> "str"],
      [key |-> "query_text", upper |-> "QUERY_TEXT", conv |-> "str"],
      [key |-> "warehouse_name", upper |-> "WAREHOUSE_NAME", conv |-> "str"],
      [key |-> "bytes_scanned", upper |-> "BYTES_SCANNED", conv |-> "int"],
      [key |-> "credits_used", upper |-> "CREDITS_USED", conv |-> "float"],
      [key |-> "execution_time", upper |-> "EXECUTION_TIME", conv |-> "int"],
      [key |-> "start_time", upper |-> "START_TIME", conv |-> "str"]>>

\* the default given to row.get: "", 0 or 0.0
DefaultOf(conv) ==
    CASE conv = "str" -> PyStr(<<>>)
      [] conv = "int" -> PyInt(0)
      [] conv = "float" -> PyFloat(0)

\* str(...), int(...) or float(...)
Convert(conv, v) ==
    CASE conv = "str" -> Return(StrOf(v))
      [] conv = "int" -> IntOf(v)
      [] conv = "float" -> FloatOf(v)

\* row.get(key, default)
RowGet(row, key, default) == IF key \in DOMAIN row THEN row[key] ELSE default

\* conv(row.get(UPPER, row.get(lower, default)))
FieldValue(row, f) ==
    Convert(f.conv, RowGet(row, f.upper, RowGet(row, f.key, DefaultOf(f.conv))))

\* the dict display of the loop body: the record, or the exception of the
\* first field whose conversion raises
NormalizeRow(row) ==
    LET vals == [i \in DOMAIN FieldSeq |-> FieldValue(row, FieldSeq[i])]
        failed == {i \in DOMAIN FieldSeq : vals[i].raised # ""}
        IndexOfKey(k) == CHOOSE i \in DOMAIN FieldSeq : FieldSeq[i].key = k
    IN  IF failed # {}
        THEN Raise(vals[CHOOSE i \in failed : \A j \in failed : i <= j].raised)
        ELSE Return([k \in {FieldSeq[i].key : i \in DOMAIN FieldSeq} |->
                        vals[IndexOfKey(k)].value])

MaxRows == 2

\* the values a field of a row can hold
FieldValues ==
    {PyNone, PyInt(7), PyFloat(15), PyStr(<<"1", "2">>), PyStr(<<"1", ".", "5">>),
     PyStr(<<"a", "b">>)}

\* a row that has field f under its upper-case key, its lower-case key, both
\* or none (u, l: <<>> for a missing key, else <<value>>)
RowOf(f, u, l) ==
    [k \in (IF u = <<>> THEN {} ELSE {FieldSeq[f].upper})
             \cup (IF l = <<>> THEN {} ELSE {FieldSeq[f].key}) |->
        IF k = FieldSeq[f].upper /\ u # <<>> THEN u[1] ELSE l[1]]

\* a row of an export with all its columns, under upper-case or lower-case keys
ExportedValue(conv) ==
    CASE conv = "str" -> PyStr(<<"q", "1">>)
      [] conv = "int" -> PyInt(12)
      [] conv = "float" -> PyFloat(15)

ExportedRows ==
    {[k \in {FieldSeq[i].upper : i \in DOMAIN FieldSeq} |->
        ExportedValue(FieldSeq[CHOOSE i \in DOMAIN FieldSeq : FieldSeq[i].upper = k].conv)],
     [k \in {FieldSeq[i].key : i \in DOMAIN FieldSeq} |->
        ExportedValue(FieldSeq[CHOOSE i \in DOMAIN FieldSeq : FieldSeq[i].key = k].conv)]}

Rows ==
    ExportedRows
    \cup
    {RowOf(f, u, l) : f \in DOMAIN FieldSeq,
                      u \in {<<>>} \cup {<<v>> : v \in FieldValues},
                      l \in {<<>>} \cup {<<v>> : v \in FieldValues}}

\* json.load(f) has returned the top-level value: an array or an object
InitNorm ==
    /\ pc = "loaded"
    /\ PipecostIdle
    /\ dbt_manifest = <<>>
    /\ queries = <<>>
    /\ attributions = <<>>
    /\ exec_times = <<>>
    /\ breakdown = NoValue
    /\ query_text = <<>>
    /\ matched_models = NoValue
    /\ raw \in {JsonArray(<<>>), JsonObject}
    /\ results = <<>>

\* the array of the file has one more row
ReadRow ==
    /\ pc = "loaded"
    /\ raw.py = "list"
    /\ Len(raw.items) < MaxRows
    /\ \E row \in Rows : raw' = JsonArray(Append(raw.items, row))
    /\ UNCHANGED <<pc, pipecostVars, dbt_manifest, queries, attributions, exec_times,
                   breakdown, query_text, matched_models, results>>

\* if not isinstance(raw, list): raise ValueError(...)
RejectNonArray ==
    /\ pc = "loaded"
    /\ raw.py # "list"
    /\ results' = Raise("ValueError")
    /\ pc' = "raised"
    /\ UNCHANGED <<pipecostVars, dbt_manifest, queries, attributions, exec_times,
                   breakdown, query_text, matched_models, raw>>

\* one iteration of the loop over raw; an exception leaves the function
NormalizeNextRow ==
    /\ pc \in {"loaded", "normalizing"}
    /\ raw.py = "list"
    /\ Len(results) < Len(raw.items)
    /\ LET normalized == NormalizeRow(raw.items[Len(results) + 1])
       IN  IF normalized.raised # ""
           THEN /\ results' = Raise(normalized.raised)
                /\ pc' = "raised"
           ELSE /\ results' = Append(results, normalized.value)
                /\ pc' = "normalizing"
    /\ UNCHANGED <<pipecostVars, dbt_manifest, queries, attributions, exec_times,
                   breakdown, query_text, matched_models, raw>>

\* return results
ReturnResults ==
    /\ pc \in {"loaded", "normalizing"}
    /\ raw.py = "list"
    /\ Len(results) = Len(raw.items)
    /\ pc' = "normalized"
    /\ UNCHANGED <<pipecostVars, parserVars>>

NextNorm == ReadRow \/ RejectNonArray \/ NormalizeNextRow \/ ReturnResults
SpecNorm == InitNorm /\ [][NextNorm]_vars

(***************************************************************************)
(* attribute_cost_to_model on a manifest in which a unit has the name of   *)
(* the unattributed bucket's key.                                          *)
(***************************************************************************)
MaxQueriesSentinel == 3

\* a unit named stg and a unit named __unattributed__
SentinelNodeSeq ==
    <<[resource_type |-> "model", name |-> Stg, alias |-> <<>>, schema |-> <<>>],
      [resource_type |-> "model", name |-> Unattributed, alias |-> <<>>, schema |-> <<>>]>>

\* texts that reference stg, no unit, the unit __unattributed__, and both units
SentinelTexts ==
    {Stg, Stg \o <<"2">>, Unattributed, Stg \o Space \o Unattributed}

\* 0.000001 and 0.000003 credits
SentinelQueries ==
    {NormalizedQuery(t, c * TicksPerMicro, 7, PyStr("2024-01-15T10:00:00Z")) :
        t \in SentinelTexts, c \in {1, 3}}

\* the next node of the manifest is read
LoadSentinelNode ==
    /\ pc = "manifest"
    /\ Len(dbt_manifest) < Len(SentinelNodeSeq)
    /\ dbt_manifest' = Append(dbt_manifest, SentinelNodeSeq[Len(dbt_manifest) + 1])
    /\ UNCHANGED <<pc, pipecostVars, queries, attributions, exec_times, breakdown,
                   query_text, matched_models, raw, results>>

AttributeQuerySentinel == AttributeQuery(SentinelQueries, MaxQueriesSentinel)
NextSentinel == LoadSentinelNode \/ AttributeQuerySentinel \/ FinishAttribution
SpecSentinel == InitAttr /\ [][NextSentinel]_vars

(***************************************************************************)
(* attribute_cost_to_model and calculate_monthly_breakdown on queries      *)
(* whose credits are near half of 0.0001, the unit of the reported totals. *)
(***************************************************************************)
MaxQueriesReconcile == 2

\* texts that reference one unit and three units
ReconcileTexts == {Stg, Stg \o Space \o Fct \o Space \o Dim}

\* 0.000023, 0.000026 and 0.00003 credits, in January or February
ReconcileQueries ==
    {NormalizedQuery(t, c * TicksPerMicro, 1000, s) :
        t \in ReconcileTexts, c \in {23, 26, 30},
        s \in {PyStr("2024-01-15T10:00:00Z"), PyStr("2024-02-01T08:30:00")}}

AttributeQueryReconcile == AttributeQuery(ReconcileQueries, MaxQueriesReconcile)
NextReconcile == AttributeQueryReconcile \/ FinishAttribution \/ Breakdown
SpecReconcile == InitMonthly /\ [][NextReconcile]_vars

(***************************************************************************)
(* Properties of the detectors and of analyze.                             *)
(***************************************************************************)
Analyzed == pc = "analyzed"

FindingsOf(category) ==
    SelectSeq(report.findings, LAMBDA f : f.category = category)

TotalEventCredits ==
    SumSeq([i \in DOMAIN query_records |-> query_records[i].credits_used])

EventCredits(name) ==
    SumSeq([i \in DOMAIN query_records |->
              IF query_records[i].model_name = name
              THEN query_records[i].credits_used ELSE 0])

\* the zombie findings about unit u
ZombieFindingsFor(u) ==
    {i \in DOMAIN FindingsOf("zombie") : FindingsOf("zombie")[i].model = u.name}

\* C4 as stated: a unit gets a zombie finding iff it has no downstream unit
\* and its credits are at least 1% of the credits of all events.
C4_ZombieIffAtLeastOnePercent ==
    Analyzed =>
        \A i \in DOMAIN models :
            (ZombieFindingsFor(models[i]) # {})
                <=> (/\ models[i].downstream = <<>>
                     /\ EventCredits(models[i].name) * 100 >= TotalEventCredits)

\* C4 amended: a unit gets a zombie finding iff it has no downstream unit,
\* its credits are positive and they are at least 1% of the credits of all
\* events (events of names that are not units included); a unit with a
\* downstream unit gets none whatever its share; the finding is critical
\* when the share is >= 5% and a warning otherwise.
C4_ZombieIffPositiveAndAtLeastOnePercent ==
    Analyzed =>
        /\ \A i \in DOMAIN models :
             LET u == models[i]
                 own == EventCredits(u.name)
                 fs == FindingsOf("zombie")
             IN  /\ (ZombieFindingsFor(u) # {})
                       <=> (/\ u.downstream = <<>>
                            /\ own > 0
                            /\ own * 100 >= TotalEventCredits)
                 /\ u.downstream # <<>> => ZombieFindingsFor(u) = {}
                 /\ \A j \in ZombieFindingsFor(u) :
                       fs[j].severity = IF own * 100 >= 5 * TotalEventCredits
                                        THEN "critical" ELSE "warning"
        /\ \A j \in DOMAIN FindingsOf("zombie") :
             FindingsOf("zombie")[j].model \in Range(MapNames(models))

\* a warning zombie next to a costly unit that is spared by its downstream
C4_Witness ==
    /\ Analyzed
    /\ \E j \in DOMAIN FindingsOf("zombie") : FindingsOf("zombie")[j].severity = "warning"
    /\ \E i \in DOMAIN models :
         /\ models[i].downstream # <<>>
         /\ EventCredits(models[i].name) * 2 >= TotalEventCredits
         /\ EventCredits(models[i].name) > 0

\* the over-schedule findings about a name
OverFindingsFor(name) ==
    {i \in DOMAIN FindingsOf("over_schedule") :
        FindingsOf("over_schedule")[i].model = name}

EventTimes(name) ==
    {query_records[i].start_time :
        i \in {j \in DOMAIN query_records : query_records[j].model_name = name}}

EventCount(name) ==
    Cardinality({j \in DOMAIN query_records : query_records[j].model_name = name})

\* last run minus first run: the sum of the gaps between consecutive runs
Span(name) ==
    LET ts == EventTimes(name)
    IN  (CHOOSE hi \in ts : \A t \in ts : t <= hi)
          - (CHOOSE lo \in ts : \A t \in ts : lo <= t)

\* C5: a name is flagged over-scheduled iff it has at least 3 events and the
\* mean gap between its consecutive runs is <= 4 hours (a mean gap of 0
\* included); with fewer than 3 events it is never flagged; the finding is
\* critical when the mean gap is <= 1 hour and a warning otherwise, and its
\* estimated savings is 75% of the name's share of all credits, reported to
\* one decimal.
C5_OverScheduledIffThreeRunsWithinFourHours ==
    Analyzed =>
        \A name \in EventNames \cup Range(MapNames(models)) :
            LET n == EventCount(name)
                fs == FindingsOf("over_schedule")
            IN  /\ Cardinality(OverFindingsFor(name)) <= 1
                /\ (OverFindingsFor(name) # {})
                      <=> (n >= 3 /\ Span(name) <= 4 * 3600 * (n - 1))
                /\ n < 3 => OverFindingsFor(name) = {}
                /\ \A j \in OverFindingsFor(name) :
                      /\ fs[j].severity = IF Span(name) <= 3600 * (n - 1)
                                          THEN "critical" ELSE "warning"
                      /\ fs[j].estimated_savings_pct =
                            IF TotalEventCredits = 0 THEN 0
                            ELSE RoundHalfEven(75 * 10 * EventCredits(name),
                                               TotalEventCredits)

\* a name whose runs all start at the same instant is flagged, and its
\* savings are a proper part of the cap
C5_Witness ==
    /\ Analyzed
    /\ \E j \in DOMAIN FindingsOf("over_schedule") :
         LET f == FindingsOf("over_schedule")[j]
         IN  /\ Cardinality(EventTimes(f.model)) = 1
             /\ f.estimated_savings_pct > 0
             /\ f.estimated_savings_pct < 750

SumOfSavings ==
    SumSeq([i \in DOMAIN report.findings |-> report.findings[i].estimated_savings_pct])

\* C7: the report's savings_pct lies in [0, 75.0]; it is the sum of the
\* findings' estimated savings when that sum is at most 75, exactly 75.0
\* when the sum exceeds 75, and 0.0 when there are no findings.
C7_SavingsClampedAt75 ==
    Analyzed =>
        /\ report.savings_pct >= 0
        /\ report.savings_pct <= 750
        /\ SumOfSavings <= 750 => report.savings_pct = SumOfSavings
        /\ SumOfSavings > 750 => report.savings_pct = 750
        /\ report.findings = <<>> => report.savings_pct = 0

\* one unit counted by the zombie and by the over-schedule detector
C7_Witness ==
    /\ Analyzed
    /\ SumOfSavings > 750
    /\ \E i \in DOMAIN FindingsOf("zombie") :
         OverFindingsFor(FindingsOf("zombie")[i].model) # {}


RedundantFindings == FindingsOf("redundant")

\* the units with fingerprint h, in input order
UnitsWithFingerprint(h) ==
    MapNames(SelectSeq(models, LAMBDA m : m.sql_hash = h))

SharedFingerprints ==
    {h \in {models[i].sql_hash : i \in DOMAIN models} :
        h # "" /\ Len(UnitsWithFingerprint(h)) >= 2}

\* C6: detect_redundant returns exactly one finding per distinct non-empty
\* fingerprint that two or more units share; the finding's subject lists
\* every unit with that fingerprint and no other unit; a unit whose
\* fingerprint is empty, or shared with no other unit, is in no finding.
C6_OneRedundantFindingPerSharedFingerprint ==
    Analyzed =>
        /\ \A h \in SharedFingerprints :
             Cardinality({j \in DOMAIN RedundantFindings :
                            RedundantFindings[j].model = UnitsWithFingerprint(h)}) = 1
        /\ \A j \in DOMAIN RedundantFindings :
             \E h \in SharedFingerprints :
                RedundantFindings[j].model = UnitsWithFingerprint(h)
        /\ Len(RedundantFindings) = Cardinality(SharedFingerprints)
        /\ \A i \in DOMAIN models :
             (models[i].sql_hash = "" \/ models[i].sql_hash \notin SharedFingerprints)
                => \A j \in DOMAIN RedundantFindings :
                      models[i].name \notin Range(RedundantFindings[j].model)

\* two units share a fingerprint while two others have none
C6_Witness ==
    /\ Analyzed
    /\ Len(RedundantFindings) = 1
    /\ Len(UnitsWithFingerprint("")) >= 2
    /\ Len(models) = 4


Parsed == pc \in {"parsed", "analyzed"} /\ nodes # <<>>

ModelNodes == SelectSeq(nodes, LAMBDA n : n.resource_type = "model")

\* the namespace-stripped dependency names of a node
StrippedDeps(node) ==
    [k \in DOMAIN node.depends_on |-> node.depends_on[k][Len(node.depends_on[k])]]

\* how many times name occurs in the list s
Occurrences(s, name) == Cardinality({k \in DOMAIN s : s[k] = name})

\* C9, the graph: after parse_manifest there is one unit per model node and
\* none for another node; a unit's upstream is the namespace-stripped
\* dependency names of its node; m.name is in u.downstream iff u.name is in
\* m.upstream; an upstream name that is the name of no unit adds no
\* downstream entry.
C9_GraphInverted ==
    Parsed =>
        /\ Len(models) = Len(ModelNodes)
        /\ \A j \in DOMAIN models :
             /\ models[j].name = ModelNodes[j].name
             /\ models[j].upstream = StrippedDeps(ModelNodes[j])
        /\ \A i \in DOMAIN models : \A j \in DOMAIN models :
             (models[j].name \in Range(models[i].downstream))
                <=> (models[i].name \in Range(models[j].upstream))
        /\ \A i \in DOMAIN models :
             /\ Range(models[i].downstream) \subseteq Range(MapNames(models))
             /\ \A j \in DOMAIN models :
                  Occurrences(models[i].downstream, models[j].name)
                     = Occurrences(models[j].upstream, models[i].name)

\* C9, the second pass: it changes no unit's name, materialization,
\* fingerprint or upstream list, and adds or removes no unit.
C9_SecondPassKeepsUnits ==
    (pc = "first_pass" /\ pc' = "parsed") =>
        /\ Len(models') = Len(models)
        /\ \A i \in DOMAIN models :
             /\ models'[i].name = models[i].name
             /\ models'[i].materialization = models[i].materialization
             /\ models'[i].sql_hash = models[i].sql_hash
             /\ models'[i].upstream = models[i].upstream

\* C9: both parts.
C9_DownstreamIsInverseOfUpstream ==
    [](C9_GraphInverted) /\ [][C9_SecondPassKeepsUnits]_vars

\* a manifest with a node that is no model, a unit that declares a source
\* that is no unit, and a unit that got a downstream entry
C9_Witness ==
    /\ pc = "parsed"
    /\ Len(ModelNodes) < Len(nodes)
    /\ \E j \in DOMAIN models :
         \E k \in DOMAIN models[j].upstream :
            models[j].upstream[k] \notin Range(MapNames(models))
    /\ \E i \in DOMAIN models : models[i].downstream # <<>>


(***************************************************************************)
(* Properties of the parser.                                               *)
(***************************************************************************)
\* the sum of the values of a function with a finite domain
RECURSIVE SumFn(_)
SumFn(f) ==
    IF DOMAIN f = {} THEN 0
    ELSE LET x == CHOOSE y \in DOMAIN f : TRUE
         IN  f[x] + SumFn([y \in DOMAIN f \ {x} |-> f[y]])

AttributedTotal ==
    SumSeq([i \in DOMAIN attributions |-> attributions[i].total_credits])

ProcessedCredits ==
    SumSeq([i \in DOMAIN queries |-> queries[i].credits_used])

\* C1: after every query processed by attribute_cost_to_model, and after
\* its return, the total_credits of all attribution records, the
\* unattributed bucket included, sum to the credits_used of the queries
\* processed.
C1_CreditsConserved ==
    pc \in {"attributing", "attributed"} => AttributedTotal = ProcessedCredits

\* credits were split in three, and a query went to the unattributed bucket
C1_Witness ==
    /\ pc = "attributed"
    /\ \E i \in DOMAIN attributions : attributions[i].total_credits % TicksPerMicro # 0
    /\ \E i \in DOMAIN attributions :
         /\ attributions[i].model_name = Unattributed
         /\ attributions[i].total_credits > 0

\* the record of a name, the fresh record when it has none
RecordOf(attrs, name) ==
    IF name \in Range(Keys(attrs)) THEN attrs[IndexOf(attrs, name)]
    ELSE CostAttribution(name)

\* one query is processed: what the step does to the records
C2_Step ==
    (pc' = "attributing" /\ Len(queries') = Len(queries) + 1) =>
        LET q == queries'[Len(queries')]
            M == Range(match_query_to_models(q.query_text,
                          extract_model_names_from_manifest(dbt_manifest)))
            N == Cardinality(M)
            Gain(name) == RecordOf(attributions', name).total_credits
                            - RecordOf(attributions, name).total_credits
        IN  N >= 1 =>
              /\ \A name \in M :
                   /\ RecordOf(attributions', name).query_count
                         = RecordOf(attributions, name).query_count + 1
                   /\ Gain(name) * N = q.credits_used
              /\ SumFn([name \in M |-> Gain(name)]) = q.credits_used
              /\ Range(Keys(attributions')) = Range(Keys(attributions)) \cup M
              /\ \A name \in Range(Keys(attributions)) \ M :
                   RecordOf(attributions', name) = RecordOf(attributions, name)

\* C2: a query whose text matches N >= 1 distinct units adds exactly 1 to
\* the query_count of each matched unit (also when several patterns of one
\* unit match) and credits_used / N to its total_credits, and changes the
\* record of no other unit; the N shares sum to credits_used.
C2_EachMatchedUnitGetsOneCountAndAnEvenShare == [][C2_Step]_vars

\* a query matched one unit through two patterns, another matched two units
C2_Witness ==
    /\ pc = "attributing"
    /\ \E i \in DOMAIN queries :
         /\ queries[i].query_text = RawSchema \o <<".">> \o Stg
         /\ queries[i].credits_used > 0
    /\ \E i \in DOMAIN queries :
         /\ queries[i].query_text = Stg \o Space \o Fct
         /\ queries[i].credits_used > 0
    /\ Fct \in Range(Keys(attributions))

\* the patterns of a unit: bare name, alias, and their schema-qualified forms
UnitPatterns(node) ==
    LET names == {Lower(node.name)}
                 \cup (IF node.alias = <<>> THEN {} ELSE {Lower(node.alias[1])})
    IN  names \cup (IF node.schema = <<>> THEN {}
                    ELSE {Lower(node.schema[1]) \o <<".">> \o n : n \in names})

\* p occurs in text with no letter, digit or underscore right before or
\* right after it
OccursDelimited(p, text) ==
    \E i \in 1 .. (Len(text) - Len(p) + 1) :
        /\ \A k \in 1 .. Len(p) : text[i + k - 1] = p[k]
        /\ i > 1 => ~IsWordChar(text[i - 1])
        /\ i + Len(p) <= Len(text) => ~IsWordChar(text[i + Len(p)])

\* the text is one identifier
IsIdentifier(text) ==
    text # <<>> /\ \A k \in DOMAIN text : IsWordChar(text[k])

\* C3: a unit is matched only through an occurrence of one of its patterns
\* that is not part of a longer identifier; a text that is one identifier
\* and is no pattern of any unit matches no unit (it goes to the
\* unattributed bucket).
C3_MatchesOnlyAtWordBoundaries ==
    pc = "matched" =>
        /\ \A k \in DOMAIN matched_models :
             \E i \in DOMAIN dbt_manifest :
                /\ dbt_manifest[i].resource_type = "model"
                /\ dbt_manifest[i].name = matched_models[k]
                /\ \E p \in UnitPatterns(dbt_manifest[i]) :
                      OccursDelimited(p, Lower(query_text))
        /\ (/\ IsIdentifier(query_text)
            /\ \A i \in DOMAIN dbt_manifest :
                  dbt_manifest[i].resource_type = "model"
                     => Lower(query_text) \notin UnitPatterns(dbt_manifest[i]))
              => matched_models = <<>>

\* the text is an identifier that extends the name of a unit, and no unit
\* is matched
C3_Witness ==
    /\ pc = "matched"
    /\ matched_models = <<>>
    /\ IsIdentifier(query_text)
    /\ \E i \in DOMAIN dbt_manifest :
         /\ dbt_manifest[i].resource_type = "model"
         /\ Len(query_text) > Len(dbt_manifest[i].name)
         /\ SubSeq(Lower(query_text), 1, Len(dbt_manifest[i].name))
               = Lower(dbt_manifest[i].name)

Reported == pc = "reported" /\ breakdown.result.raised = ""

\* the credit shares recorded for a unit in a month
MonthCredits(name, month_key) ==
    SumFn([r \in {x \in AllShares(attributions) :
                     x.model = name /\ MonthKey(x.q.start_time) = month_key}
             |-> r.q.credits_share])

\* the credit shares recorded in a month
MonthTotal(month_key) ==
    SumFn([r \in {x \in AllShares(attributions) : MonthKey(x.q.start_time) = month_key}
             |-> r.q.credits_share])

\* the sum of the reported pct of a month, in hundredths of a percent
PctSum(month_key) ==
    SumSeq([i \in DOMAIN breakdown.result.months[month_key].top_models |->
              breakdown.result.months[month_key].top_models[i].pct])

\* what C8 says of a month besides the sum of its percentages: each pct is
\* the unit's credits in the month over the month total, times 100, rounded
\* to 2 decimals, and 0 when the month total is 0; the entries are in
\* descending order of credits; there are at most top_n of them
MonthRanking(month_key) ==
    LET top == breakdown.result.months[month_key].top_models
        total == MonthTotal(month_key)
    IN  /\ Len(top) <= breakdown.top_n
        /\ \A i \in DOMAIN top :
             /\ total > 0 =>
                  top[i].pct = RoundHalfEven(MonthCredits(top[i].model, month_key) * 10000,
                                             total)
             /\ total = 0 => top[i].pct = 0
        /\ \A i \in DOMAIN top : \A j \in DOMAIN top :
             i < j => MonthCredits(top[i].model, month_key)
                         >= MonthCredits(top[j].model, month_key)

\* C8: in every month of the breakdown the reported pct of the top_models
\* sum to at most 100; each pct is the unit's credits in the month over the
\* month total, times 100, rounded to 2 decimals, and 0 when the month
\* total is 0; the entries are in descending order of credits and there are
\* at most top_n of them.
C8_PctSumAtMost100 ==
    Reported =>
        \A m \in DOMAIN breakdown.result.months :
            /\ PctSum(m) <= 10000
            /\ MonthRanking(m)

\* a month whose pct sum to more than 100 while the rest of C8 holds of it
C8_Witness ==
    /\ Reported
    /\ \E m \in DOMAIN breakdown.result.months :
         /\ PctSum(m) > 10000
         /\ MonthRanking(m)
         /\ Len(breakdown.result.months[m].top_models) = 3

\* the value C10 gives to field f of the normalized record of a row: the
\* converted value of the upper-case key when the row has it, else of the
\* lower-case key, and the default ("", 0 or 0.0) when the row has neither
\* key or the value cannot be converted
ToleratedValue(row, f) ==
    LET present == IF f.upper \in DOMAIN row THEN <<row[f.upper]>>
                   ELSE IF f.key \in DOMAIN row THEN <<row[f.key]>>
                   ELSE <<>>
        default == Convert(f.conv, DefaultOf(f.conv)).value
    IN  IF present = <<>> THEN default
        ELSE IF Convert(f.conv, present[1]).raised # "" THEN default
        ELSE Convert(f.conv, present[1]).value

\* the records built so far are the ones C10 describes
NormalizedAsStated ==
    \A i \in DOMAIN results : \A k \in DOMAIN FieldSeq :
        results[i][FieldSeq[k].key] = ToleratedValue(raw.items[i], FieldSeq[k])

\* C10: on a top-level array parse_query_history never raises; it returns
\* one normalized record per row, in which a field the row has under
\* neither key, or with a value that cannot be converted, holds the default,
\* and a field the row has under both keys holds the upper-case key's value.
C10_NormalizationNeverRaises ==
    raw.py = "list" =>
        /\ pc # "raised"
        /\ pc \in {"normalizing", "normalized"} => NormalizedAsStated
        /\ pc = "normalized" => Len(results) = Len(raw.items)

\* a row whose bytes, credits or execution time is null or no number made
\* the call raise
C10_Witness ==
    /\ pc = "raised"
    /\ raw.py = "list"
    /\ results.raised \in {"TypeError", "ValueError"}

\* the month C11 gives a per-event record: the year and month of a
\* start_time that is an ISO-8601 str (a trailing Z read as UTC), "unknown"
\* for every other value
StatedMonth(start) ==
    CASE start = PyStr("2024-01-15T10:00:00Z") -> "2024-01"
      [] start = PyStr("2024-02-01T08:30:00") -> "2024-02"
      [] OTHER -> "unknown"

\* the credit shares of the per-event records C11 puts in a month
StatedMonthTotal(month_key) ==
    SumFn([r \in {x \in AllShares(attributions) :
                     StatedMonth(x.q.start_time) = month_key}
             |-> r.q.credits_share])

\* every per-event record is counted in the month C11 gives it, and in no
\* other
CountedInStatedMonths ==
    /\ DOMAIN breakdown.result.months
          = {StatedMonth(r.q.start_time) : r \in AllShares(attributions)}
    /\ \A m \in DOMAIN breakdown.result.months :
          breakdown.result.months[m].total_credits = Round4(StatedMonthTotal(m))

\* C11: calculate_monthly_breakdown never raises because of a timestamp; a
\* per-event record whose start_time is empty, missing, no str or not
\* parsable is counted in the "unknown" month, a record with a parsable
\* start_time in its YYYY-MM month, and so every record in exactly one month.
C11_TimestampsNeverRaise ==
    pc = "reported" =>
        /\ breakdown.result.raised = ""
        /\ CountedInStatedMonths

\* a per-event record with a start_time that is an int made the call raise
C11_Witness ==
    /\ pc = "reported"
    /\ breakdown.result.raised = "AttributeError"
    /\ \E r \in AllShares(attributions) : r.q.start_time.py = "int"

\* the queries processed so far whose text matches no unit of the manifest
UnmatchedQueries ==
    SelectSeq(queries, LAMBDA q :
        match_query_to_models(q.query_text,
                              extract_model_names_from_manifest(dbt_manifest)) = <<>>)

\* the record under the unattributed key holds the unmatched queries, each
\* with its whole credits and bytes, and nothing else; there is no such
\* record when every query matched a unit
UnattributedHoldsExactlyUnmatched ==
    LET U == UnmatchedQueries
        rec == RecordOf(attributions, Unattributed)
    IN  IF U = <<>> THEN Unattributed \notin Range(Keys(attributions))
        ELSE /\ Unattributed \in Range(Keys(attributions))
             /\ rec.query_count = Len(U)
             /\ rec.total_credits = SumSeq([k \in DOMAIN U |-> U[k].credits_used])
             /\ rec.total_bytes_scanned = SumSeq([k \in DOMAIN U |-> U[k].bytes_scanned])
             /\ rec.queries = [k \in DOMAIN U |->
                                 [query_id |-> U[k].query_id,
                                  credits_share |-> Round6(U[k].credits_used),
                                  start_time |-> U[k].start_time]]

\* C12: whatever names the units have, the record under the unattributed
\* key accumulates exactly the queries whose text matches no unit, each with
\* its whole credits and bytes; no query that matches a unit contributes to
\* it, so the key is never the key of a real unit's record.
C12_UnattributedHoldsExactlyUnmatched ==
    pc \in {"attributing", "attributed"} => UnattributedHoldsExactlyUnmatched

\* a query that matched the unit named __unattributed__ was added to the
\* record under the unattributed key, next to a query that matched no unit
C12_Witness ==
    /\ pc = "attributed"
    /\ UnmatchedQueries # <<>>
    /\ \E i \in DOMAIN queries :
         Unattributed \in Range(match_query_to_models(queries[i].query_text,
                                   extract_model_names_from_manifest(dbt_manifest)))
    /\ RecordOf(attributions, Unattributed).query_count > Len(UnmatchedQueries)

\* the sum of the total_credits the breakdown reports for its months
ReportedMonthTotals ==
    SumFn([m \in DOMAIN breakdown.result.months |->
             breakdown.result.months[m].total_credits])

\* C13: the overall total_credits that calculate_monthly_breakdown reports
\* for attributions made by attribute_cost_to_model equals the sum of the
\* total_credits it reports for the months, "unknown" included, for any
\* number of events and any split.
C13_TotalEqualsSumOfMonths ==
    Reported => breakdown.result.total_credits = ReportedMonthTotals

\* one month only, two queries split three ways each: the shares recorded
\* for the month add up to more than the credits of the queries, and the
\* month's reported total differs from the overall total
C13_Witness ==
    /\ Reported
    /\ Cardinality(DOMAIN breakdown.result.months) = 1
    /\ Len(queries) = 2
    /\ \A m \in DOMAIN breakdown.result.months :
         /\ MonthTotal(m) > ProcessedCredits
         /\ breakdown.result.months[m].total_credits > breakdown.result.total_credits

\* the place of a category in the report: zombie, over_schedule, redundant
CategoryRank(category) ==
    CASE category = "zombie" -> 1
      [] category = "over_schedule" -> 2
      [] category = "redundant" -> 3

\* the place of a finding in its detector's insertion order: the position
\* of the unit in the unit list (zombie), of the name's first event in the
\* event list (over_schedule), of the group's first unit in the unit list
\* (redundant)
InsertionRank(f) ==
    CASE f.category = "zombie" ->
           CHOOSE i \in DOMAIN models : models[i].name = f.model
      [] f.category = "over_schedule" ->
           CHOOSE i \in DOMAIN query_records :
              /\ query_records[i].model_name = f.model
              /\ \A j \in 1 .. (i - 1) : query_records[j].model_name # f.model
      [] f.category = "redundant" ->
           CHOOSE i \in DOMAIN models : models[i].name = f.model[1]

\* C14: the findings of the report are the zombie findings, then the
\* over-schedule findings, then the redundant findings; within a category
\* they are in descending order of estimated_savings_pct, ties in the
\* detector's insertion order; nothing orders findings of different
\* categories by their savings; the summary counts are the numbers of
\* findings of each category and add up to the length of the list.
C14_FindingsByCategoryThenSavings ==
    Analyzed =>
        LET F == report.findings
        IN  /\ \A i \in DOMAIN F : \A j \in DOMAIN F :
                 i < j =>
                   /\ CategoryRank(F[i].category) <= CategoryRank(F[j].category)
                   /\ F[i].category = F[j].category =>
                        /\ F[i].estimated_savings_pct >= F[j].estimated_savings_pct
                        /\ F[i].estimated_savings_pct = F[j].estimated_savings_pct
                              => InsertionRank(F[i]) < InsertionRank(F[j])
            /\ report.summary.zombies = Len(FindingsOf("zombie"))
            /\ report.summary.over_scheduled = Len(FindingsOf("over_schedule"))
            /\ report.summary.redundant = Len(FindingsOf("redundant"))
            /\ report.summary.zombies + report.summary.over_scheduled
                  + report.summary.redundant = Len(F)

\* a report with findings of the three categories in which a finding has
\* smaller savings than a later finding of another category
C14_Witness ==
    /\ Analyzed
    /\ FindingsOf("zombie") # <<>>
    /\ FindingsOf("over_schedule") # <<>>
    /\ FindingsOf("redundant") # <<>>
    /\ \E i \in DOMAIN report.findings : \E j \in DOMAIN report.findings :
         /\ i < j
         /\ report.findings[i].category # report.findings[j].category
         /\ report.findings[i].estimated_savings_pct
               < report.findings[j].estimated_savings_pct

\* a report with two zombie findings of equal savings
C14_TieWitness ==
    /\ Analyzed
    /\ Len(FindingsOf("zombie")) = 2
    /\ FindingsOf("zombie")[1].estimated_savings_pct
          = FindingsOf("zombie")[2].estimated_savings_pct

\* a node with no defining source text: raw_sql and raw_code are each
\* missing or empty
HasNoSourceText(node) ==
    /\ node.raw_sql \in {<<>>, <<"">>}
    /\ node.raw_code \in {<<>>, <<"">>}

\* the names of the units built from model nodes with no defining text
UnitsWithoutText ==
    {ModelNodes[i].name : i \in {k \in DOMAIN ModelNodes : HasNoSourceText(ModelNodes[k])}}

\* C15: after parse_manifest and analyze, no redundant finding groups a
\* unit built from a manifest node with no defining source text, however
\* many such units there are.
C15_UnitsWithoutTextNeverGrouped ==
    (pc = "analyzed" /\ nodes # <<>>) =>
        \A i \in DOMAIN RedundantFindings :
            Range(RedundantFindings[i].model) \cap UnitsWithoutText = {}

\* two units built from nodes with neither raw_sql nor raw_code are the
\* subject of a redundant finding
C15_Witness ==
    /\ pc = "analyzed"
    /\ Cardinality(UnitsWithoutText) >= 2
    /\ \E i \in DOMAIN RedundantFindings :
         Range(RedundantFindings[i].model) \subseteq UnitsWithoutText

\* other unit lists for the same events: the list cut after its first k
\* units, as scan cuts it at the free-tier limit, and a list with one unit
\* for every name of an event
OtherUnitLists ==
    {SubSeq(models, 1, k) : k \in 0 .. Len(models)}
    \cup
    {LET names == FirstSeen([i \in DOMAIN query_records |-> query_records[i].model_name])
     IN  [i \in DOMAIN names |-> Model(names[i], "view", "h1", <<>>, <<>>)]}

\* C16: the over-schedule findings depend on the usage events alone: for
\* the events of the report, detect_over_scheduling returns the report's
\* over-schedule findings for every other unit list too.
C16_OverScheduleIgnoresUnits ==
    Analyzed =>
        \A other \in OtherUnitLists :
            detect_over_scheduling(other, query_records) = FindingsOf("over_schedule")

\* the report has an over-schedule finding for a name that is no unit of
\* the list analyze was given, and its savings are in savings_pct
C16_Witness ==
    /\ Analyzed
    /\ models # <<>>
    /\ \E i \in DOMAIN report.findings :
         /\ report.findings[i].category = "over_schedule"
         /\ report.findings[i].model \notin Range(MapNames(models))
         /\ report.findings[i].estimated_savings_pct > 0
         /\ report.savings_pct = Min2(SumOfSavings, SavingsCapTenths)
         /\ report.savings_pct >= Min2(report.findings[i].estimated_savings_pct,
                                       SavingsCapTenths)

====
